---- MODULE Spec2Model ----
(***************************************************************************)
(* Two-level bounding volume hierarchy of src/bvh.cpp: the SAH-binned BLAS *)
(* (BVH::Build, BVH::Refit, BVH::Intersect), the reference agglomerative   *)
(* TLAS build (TLAS::Build) and the pre-split parallel TLAS build          *)
(* (TLAS::BuildQuick).                                                     *)
(*                                                                         *)
(* Numbers.  Coordinates are integers and every finite float expression is *)
(* evaluated exactly (rounding is not modelled).  Quotients are kept as    *)
(* numerator/denominator pairs and compared by cross-multiplication.  The  *)
(* IEEE special values the slab test can produce (+inf, -inf, NaN from     *)
(* 0 * inf) are kept as such.  The float literal 1e30f is the integer Huge,*)
(* larger than every finite magnitude the bounded inputs can produce.      *)
(***************************************************************************)
EXTENDS Integers, Sequences, FiniteSets, TLC

\* ---------------------------------------------------------------- bounds
\* largest number of triangles of a mesh
MaxTris == 3
\* largest number of instances given to TLAS::Build
MaxInst == 4

\* ------------------------------------------------------ program constants
\* number of SAH bins ("the 7 planes between the 8 bins")
BINS == 8
\* the literal 1e30f
Huge == 1000000
\* 1 / 0.0001f, the near-hit epsilon of IntersectTri
NearEpsInv == 10000
\* 1 / 0.00001f, the parallel-ray epsilon of IntersectTri
ParEpsInv == 100000
\* 0.3333f in units of 1e-4: the centroid scale of BVH::Build
Third == 3333
\* bits of instPrim that hold the triangle index
PrimBits == 20
\* bits of leftRight that hold one child slot
ChildBits == 16
\* iterations of the parallel loop of TLAS::BuildQuick, one per group
GroupCount == 8
\* first leaf slot of TLAS::BuildQuick
LeafBase == 32
\* slot of the root of group 0: tlasNode[i + 7]
RootBase == 7
\* the headroom BuildQuick adds to nodesUsed
QuickHeadroom == 64

VARIABLES
  tri,            \* mesh->tri: triangle index -> [vertex0, vertex1, vertex2, centroid]
  meshTriCount,   \* mesh->triCount
  bvhCap,         \* number of BVHNode slots allocated by BVH::BVH
  bvhNode,        \* the node pool: slot -> [aabbMin, aabbMax, leftFirst, triCount]
  triIdx,         \* the triangle index array
  nodesUsed,      \* BVH::nodesUsed
  oob,            \* an element outside an allocated array has been accessed
  stage,          \* "loaded" (no BVH yet), "fresh" (bounds fit the vertices), "dirty"
  moved,          \* the vertices have been animated since construction
  ray,            \* the ray last traced: [O, D, inst, hit]
  lastOp          \* the operation that produced this state

VARIABLES
  blasCount,      \* TLAS::blasCount, the number of instances N
  blasBounds,     \* blas[i].bounds: instance index -> [bmin, bmax]
  tlasCap,        \* number of TLASNode slots allocated by TLAS::TLAS
  tlasNode,       \* the TLAS node pool: slot -> [aabbMin, aabbMax, leftRight, BLAS]
  tlasNodesUsed,  \* TLAS::nodesUsed
  tlasOob,        \* an element outside an allocated TLAS array has been accessed
  nodeIdx,        \* TLAS::nodeIdx, the active cluster list of TLAS::Build
  nodeIndices,    \* local nodeIndices of TLAS::Build
  A,              \* local A of TLAS::Build
  B,              \* local B of TLAS::Build
  pcT             \* position of TLAS::Build: "new", "loop", "done"

VARIABLES
  treeSize,       \* static treeSize[8] of TLAS::BuildQuick
  tree,           \* static tree[8]: group -> the set of node slots its kD-tree holds
  worker,         \* the 8 iterations of the parallel loop: group -> its locals
  pcQ             \* position of TLAS::BuildQuick: "new", "split", "joined"

blasVars == <<tri, meshTriCount, bvhCap, bvhNode, triIdx, nodesUsed, oob, stage, moved, ray, lastOp>>
tlasVars == <<blasCount, blasBounds, tlasCap, tlasNode, tlasNodesUsed, tlasOob>>
buildVars == <<nodeIdx, nodeIndices, A, B, pcT>>
quickVars == <<treeSize, tree, worker, pcQ>>
vars == <<blasVars, tlasVars, buildVars, quickVars>>

\* ---------------------------------------------------------------- vectors
Axes == 0..2
Vec(x, y, z) == <<x, y, z>>
VAdd(a, b) == <<a[1] + b[1], a[2] + b[2], a[3] + b[3]>>
VSub(a, b) == <<a[1] - b[1], a[2] - b[2], a[3] - b[3]>>
VScale(a, k) == <<a[1] * k, a[2] * k, a[3] * k>>
dot(a, b) == a[1] * b[1] + a[2] * b[2] + a[3] * b[3]
cross(a, b) == <<a[2] * b[3] - a[3] * b[2], a[3] * b[1] - a[1] * b[3], a[1] * b[2] - a[2] * b[1]>>
IMin(a, b) == IF a < b THEN a ELSE b
IMax(a, b) == IF a > b THEN a ELSE b
fminf(a, b) == <<IMin(a[1], b[1]), IMin(a[2], b[2]), IMin(a[3], b[3])>>
fmaxf(a, b) == <<IMax(a[1], b[1]), IMax(a[2], b[2]), IMax(a[3], b[3])>>
Abs(x) == IF x < 0 THEN -x ELSE x
Sign(x) == IF x < 0 THEN -1 ELSE 1

\* aabb of bvh.h: the empty box is (1e30, -1e30)
EmptyBox == [bmin |-> Vec(Huge, Huge, Huge), bmax |-> Vec(-Huge, -Huge, -Huge)]
GrowPoint(b, p) == [bmin |-> fminf(b.bmin, p), bmax |-> fmaxf(b.bmax, p)]
\* a bound fitted to two of the three vertices
GrowTriTwoVertices(b, t) == GrowPoint(GrowPoint(b, t.vertex0), t.vertex1)
GrowTri(b, t) == GrowPoint(GrowPoint(GrowPoint(b, t.vertex0), t.vertex1), t.vertex2)
\* aabb::area and the node cost use the half surface area e.x*e.y + e.y*e.z + e.z*e.x
HalfArea(bmin, bmax) ==
  LET e == VSub(bmax, bmin) IN e[1] * e[2] + e[2] * e[3] + e[3] * e[1]

\* ------------------------------------------------------------------ inputs
MkTri(a, b, c) == [vertex0 |-> a, vertex1 |-> b, vertex2 |-> c, centroid |-> Vec(0, 0, 0)]
TriChoices ==
  { MkTri(Vec(0, 0, 0), Vec(2, 0, 0), Vec(0, 2, 0)),
    MkTri(Vec(4, 0, 0), Vec(6, 0, 0), Vec(4, 2, 0)),
    MkTri(Vec(0, 0, 2), Vec(2, 0, 2), Vec(0, 2, 2)),
    MkTri(Vec(4, 0, 2), Vec(6, 2, 2), Vec(4, 2, 4)) }
RayOrigins == { Vec(0, 1, -1), Vec(1, 1, -1), Vec(5, 1, -1), Vec(1, 1, 5) }
RayDirs == { Vec(0, 0, 1), Vec(0, 0, -1), Vec(1, 0, 1) }
NoHit == [tn |-> Huge, td |-> 1, un |-> 0, vn |-> 0, instPrim |-> 0]
NoRay == [O |-> Vec(0, 0, 0), D |-> Vec(0, 0, 0), inst |-> 0, hit |-> NoHit]
NilNode == [aabbMin |-> Vec(0, 0, 0), aabbMax |-> Vec(0, 0, 0), leftFirst |-> 0, triCount |-> 0]
\* the node slots the model keeps (slot 0 exists even for an empty allocation)
PoolSlots == 0..(2 * MaxTris - 1)

\* ------------------------------------------------------------ BLAS build
\* The build threads st = [node, idx, used, oob]: the node pool, triIdx, nodesUsed
\* and whether a slot at or above the allocated capacity cap was touched.
RECURSIVE BoundsOf(_, _, _, _, _, _)
BoundsOf(T, idx, first, count, i, box) ==
  IF i >= count THEN box
  ELSE BoundsOf(T, idx, first, count, i + 1, GrowTri(box, T[idx[first + i]]))

\* BVH::UpdateNodeBounds: refit one node's box to the triangles of its range
UpdateNodeBounds(st, T, slot) ==
  LET node == st.node[slot]
      box == BoundsOf(T, st.idx, node.leftFirst, node.triCount, 0, EmptyBox)
  IN [st EXCEPT !.node[slot] = [node EXCEPT !.aabbMin = box.bmin, !.aabbMax = box.bmax]]

\* BVHNode::isLeaf
isLeaf(node) == node.triCount > 0

\* BVHNode::CalculateNodeCost: half area times triCount.  For the empty box the
\* float area overflows to +inf and inf * 0 is NaN.
NodeCostIsNaN(node) == node.aabbMin[1] = Huge /\ node.triCount = 0
CalculateNodeCost(node) == HalfArea(node.aabbMin, node.aabbMax) * node.triCount

\* BVH::FindBestSplitPlane.  Returns [cost, axis, pos8] with pos8 = BINS * splitPos,
\* so that "centroid < splitPos" is "BINS * centroid < pos8" without a quotient.
\* axis and splitPos are left unset by the code when no plane is taken; they are
\* never read in that case and are 0 here.
\* the centroid span [lo, hi] of the node's triangles along axis a
RECURSIVE CentroidSpan(_, _, _, _, _, _, _, _)
CentroidSpan(T, idx, first, count, a, i, lo, hi) ==
  IF i >= count THEN [lo |-> lo, hi |-> hi]
  ELSE LET c == T[idx[first + i]].centroid[a + 1]
       IN CentroidSpan(T, idx, first, count, a, i + 1, IMin(lo, c), IMax(hi, c))
\* the bin of every triangle of the node: min(BINS - 1, (int)((c - boundsMin) * scale))
RECURSIVE BinsOf(_, _, _, _, _, _, _, _)
BinsOf(T, idx, first, count, a, span, i, acc) ==
  IF i >= count THEN acc
  ELSE LET c == T[idx[first + i]].centroid[a + 1]
       IN BinsOf(T, idx, first, count, a, span, i + 1,
                 Append(acc, IMin(BINS - 1, ((c - span.lo) * BINS) \div (span.hi - span.lo))))
\* count and box of the triangles in bins 0..p (left) or p+1..BINS-1 (right)
RECURSIVE SideOf(_, _, _, _, _, _, _, _, _)
SideOf(T, idx, first, bins, p, left, i, cnt, box) ==
  IF i > Len(bins) THEN [cnt |-> cnt, box |-> box]
  ELSE IF (bins[i] <= p) = left
       THEN SideOf(T, idx, first, bins, p, left, i + 1, cnt + 1, GrowTri(box, T[idx[first + i - 1]]))
       ELSE SideOf(T, idx, first, bins, p, left, i + 1, cnt, box)
\* the plane loop of one axis: planeCost < bestCost keeps the first minimum
RECURSIVE ScanPlanes(_, _, _, _, _, _, _, _)
ScanPlanes(T, idx, first, bins, span, a, p, best) ==
  IF p >= BINS - 1 THEN best
  ELSE LET l == SideOf(T, idx, first, bins, p, TRUE, 1, 0, EmptyBox)
           r == SideOf(T, idx, first, bins, p, FALSE, 1, 0, EmptyBox)
           \* 0 * area(empty box) = 0 * inf = NaN: "planeCost < bestCost" is false
           isNaN == l.cnt = 0 \/ r.cnt = 0
           planeCost == l.cnt * HalfArea(l.box.bmin, l.box.bmax) + r.cnt * HalfArea(r.box.bmin, r.box.bmax)
       IN ScanPlanes(T, idx, first, bins, span, a, p + 1,
            IF ~isNaN /\ planeCost < best.cost
            THEN [cost |-> planeCost, axis |-> a, pos8 |-> span.lo * BINS + (span.hi - span.lo) * (p + 1)]
            ELSE best)
RECURSIVE ScanAxes(_, _, _, _, _, _)
ScanAxes(T, idx, first, count, a, best) ==
  IF a >= 3 THEN best
  ELSE LET span == CentroidSpan(T, idx, first, count, a, 0, Huge, -Huge)
       IN IF span.lo = span.hi THEN ScanAxes(T, idx, first, count, a + 1, best)
          ELSE ScanAxes(T, idx, first, count, a + 1,
                 ScanPlanes(T, idx, first, BinsOf(T, idx, first, count, a, span, 0, <<>>), span, a, 0, best))

FindBestSplitPlane(st, T, node) ==
  ScanAxes(T, st.idx, node.leftFirst, node.triCount, 0, [cost |-> Huge, axis |-> 0, pos8 |-> 0])

\* the in-place partition loop of BVH::Subdivide; returns [idx, i]
\* an assignment in place of the swap
PartitionOverwrite(idx, i, j) == [idx EXCEPT ![i] = idx[j]]
PartitionSwap(idx, i, j) == [idx EXCEPT ![i] = idx[j], ![j] = idx[i]]
RECURSIVE Partition(_, _, _, _, _, _)
Partition(T, idx, i, j, axis, pos8) ==
  IF i > j THEN [idx |-> idx, i |-> i]
  ELSE IF T[idx[i]].centroid[axis + 1] * BINS < pos8
       THEN Partition(T, idx, i + 1, j, axis, pos8)
       ELSE Partition(T, PartitionSwap(idx, i, j), i, j - 1, axis, pos8)

\* the child ranges written by BVH::Subdivide: [leftFirst, triCount] of both children
ChildRanges(node, i) ==
  [lFirst |-> node.leftFirst, lCount |-> i - node.leftFirst,
   rFirst |-> i, rCount |-> node.triCount - (i - node.leftFirst)]

RECURSIVE Subdivide(_, _, _, _)
Subdivide(st, T, cap, slot) ==
  LET node == st.node[slot]
      split == FindBestSplitPlane(st, T, node)
      nosplitCost == CalculateNodeCost(node)
  IN IF ~NodeCostIsNaN(node) /\ split.cost >= nosplitCost THEN st
     ELSE
       LET part == Partition(T, st.idx, node.leftFirst, node.leftFirst + node.triCount - 1,
                             split.axis, split.pos8)
           leftCount == part.i - node.leftFirst
       IN IF leftCount = 0 \/ leftCount = node.triCount THEN [st EXCEPT !.idx = part.idx]
          ELSE
            LET leftChildIdx == st.used
                rightChildIdx == st.used + 1
                r == ChildRanges(node, part.i)
                s1 == [st EXCEPT
                         !.idx = part.idx,
                         !.used = st.used + 2,
                         !.oob = st.oob \/ rightChildIdx >= cap,
                         !.node[leftChildIdx] = [@ EXCEPT !.leftFirst = r.lFirst, !.triCount = r.lCount],
                         !.node[rightChildIdx] = [@ EXCEPT !.leftFirst = r.rFirst, !.triCount = r.rCount],
                         !.node[slot] = [@ EXCEPT !.leftFirst = leftChildIdx, !.triCount = 0]]
                s2 == UpdateNodeBounds(s1, T, leftChildIdx)
                s3 == UpdateNodeBounds(s2, T, rightChildIdx)
                s4 == Subdivide(s3, T, cap, leftChildIdx)
            IN Subdivide(s4, T, cap, rightChildIdx)

\* the centroids BVH::Build stores: (v0 + v1 + v2) * 0.3333f, in units of 1e-4
WithCentroids(T) ==
  [i \in DOMAIN T |-> [T[i] EXCEPT !.centroid = VScale(VAdd(VAdd(T[i].vertex0, T[i].vertex1), T[i].vertex2), Third)]]

\* BVH::Build on n triangles T with a pool of cap slots, starting from pool nodes
BVH_Build(T, n, cap, nodes) ==
  LET Tc == WithCentroids(T)
      s0 == [node |-> [nodes EXCEPT ![0] = [@ EXCEPT !.leftFirst = 0, !.triCount = n]],
             idx |-> [i \in 0..(n - 1) |-> i],
             used |-> 2,
             oob |-> 0 >= cap]
      s1 == UpdateNodeBounds(s0, Tc, 0)
  IN [st |-> Subdivide(s1, Tc, cap, 0), tri |-> Tc]

\* ------------------------------------------------------------ intersection
\* IntersectTri (Moeller-Trumbore).  With sg = sign(a) and ad = |a| every quotient
\* x / a is (sg * x) / ad; the hit keeps t, u, v as numerators over td = ad.
IntersectTri(r, hit, t, instPrim) ==
  LET edge1 == VSub(t.vertex1, t.vertex0)
      edge2 == VSub(t.vertex2, t.vertex0)
      h == cross(r.D, edge2)
      a == dot(edge1, h)
      sg == Sign(a)
      ad == Abs(a)
      s == VSub(r.O, t.vertex0)
      un == sg * dot(s, h)
      q == cross(s, edge1)
      vn == sg * dot(r.D, q)
      tn == sg * dot(edge2, q)
  IN IF ad * ParEpsInv < 1 THEN hit
     ELSE IF un < 0 \/ un > ad THEN hit
     ELSE IF vn < 0 \/ un + vn > ad THEN hit
     ELSE IF tn * NearEpsInv > ad /\ tn * hit.td < hit.tn * ad
          THEN [tn |-> tn, td |-> ad, un |-> un, vn |-> vn, instPrim |-> instPrim]
          ELSE hit

\* Extended floats of the slab test: <<"fin", n>>, <<"pinf", 0>>, <<"ninf", 0>>, <<"nan", 0>>
Fin(n) == <<"fin", n>>
PInf == <<"pinf", 0>>
NInf == <<"ninf", 0>>
NaN == <<"nan", 0>>
\* ray.rD = 1 / D for the direction components the rays use (-1, 0, 1)
Recip(d) == IF d = 0 THEN PInf ELSE Fin(d)
\* (b - o) * rD
SlabMul(diff, rd) ==
  IF rd[1] = "fin" THEN Fin(diff * rd[2])
  ELSE IF diff = 0 THEN NaN
  ELSE IF (diff > 0) = (rd[1] = "pinf") THEN PInf ELSE NInf
\* a < b on floats: false whenever an operand is NaN
FLt(a, b) ==
  /\ a[1] # "nan" /\ b[1] # "nan"
  /\ \/ a[1] = "ninf" /\ b[1] # "ninf"
     \/ a[1] = "fin" /\ b[1] = "pinf"
     \/ a[1] = "fin" /\ b[1] = "fin" /\ a[2] < b[2]
FEq(a, b) == a[1] # "nan" /\ b[1] # "nan" /\ a = b
\* min and max as std::min / std::max evaluate them
FMin(a, b) == IF FLt(b, a) THEN b ELSE a
FMax(a, b) == IF FLt(a, b) THEN b ELSE a
\* tmin < ray.hit.t, the hit distance being hit.tn / hit.td
FLtHit(a, hit) ==
  \/ a[1] = "ninf"
  \/ a[1] = "fin" /\ a[2] * hit.td < hit.tn

\* IntersectAABB: the slab test; the entry distance, or 1e30f for a miss
IntersectAABB(r, hit, bmin, bmax) ==
  LET t1(k) == SlabMul(bmin[k] - r.O[k], Recip(r.D[k]))
      t2(k) == SlabMul(bmax[k] - r.O[k], Recip(r.D[k]))
      tminx == FMin(t1(1), t2(1))
      tmaxx == FMax(t1(1), t2(1))
      tminy == FMax(tminx, FMin(t1(2), t2(2)))
      tmaxy == FMin(tmaxx, FMax(t1(2), t2(2)))
      tmin == FMax(tminy, FMin(t1(3), t2(3)))
      tmax == FMin(tmaxy, FMax(t1(3), t2(3)))
  IN IF (FLt(tmin, tmax) \/ FEq(tmin, tmax)) /\ FLtHit(tmin, hit) /\ FLt(Fin(0), tmax)
     THEN tmin ELSE Fin(Huge)

\* 2^n
RECURSIVE Pow2(_)
Pow2(n) == IF n = 0 THEN 1 ELSE 2 * Pow2(n - 1)

\* the leaf loop of BVH::Intersect
RECURSIVE LeafLoop(_, _, _, _, _, _, _)
LeafLoop(r, hit, T, idx, node, instanceIdx, i) ==
  IF i >= node.triCount THEN hit
  ELSE LET instPrim == instanceIdx * Pow2(PrimBits) + idx[node.leftFirst + i]
       IN LeafLoop(r, IntersectTri(r, hit, T[instPrim % Pow2(PrimBits)], instPrim),
                   T, idx, node, instanceIdx, i + 1)

\* BVH::Intersect: the traversal loop with its explicit stack of node slots
RECURSIVE BVH_Intersect(_, _, _, _, _, _, _, _)
BVH_Intersect(r, hit, T, nodes, idx, instanceIdx, n, stack) ==
  LET node == nodes[n] IN
  IF isLeaf(node)
  THEN LET h2 == LeafLoop(r, hit, T, idx, node, instanceIdx, 0)
       IN IF Len(stack) = 0 THEN h2
          ELSE BVH_Intersect(r, h2, T, nodes, idx, instanceIdx, stack[Len(stack)],
                             SubSeq(stack, 1, Len(stack) - 1))
  ELSE LET c1 == node.leftFirst
           c2 == node.leftFirst + 1
           d1 == IntersectAABB(r, hit, nodes[c1].aabbMin, nodes[c1].aabbMax)
           d2 == IntersectAABB(r, hit, nodes[c2].aabbMin, nodes[c2].aabbMax)
           swap == FLt(d2, d1)
           dist1 == IF swap THEN d2 ELSE d1
           dist2 == IF swap THEN d1 ELSE d2
           child1 == IF swap THEN c2 ELSE c1
           child2 == IF swap THEN c1 ELSE c2
       IN IF dist1 = Fin(Huge)
          THEN IF Len(stack) = 0 THEN hit
               ELSE BVH_Intersect(r, hit, T, nodes, idx, instanceIdx, stack[Len(stack)],
                                  SubSeq(stack, 1, Len(stack) - 1))
          ELSE BVH_Intersect(r, hit, T, nodes, idx, instanceIdx, child1,
                             IF dist2 # Fin(Huge) THEN Append(stack, child2) ELSE stack)

\* the reference scan: IntersectTri on every triangle of the mesh, in index order
RECURSIVE BruteForce(_, _, _, _, _, _)
BruteForce(r, hit, T, n, instanceIdx, i) ==
  IF i >= n THEN hit
  ELSE BruteForce(r, IntersectTri(r, hit, T[i], instanceIdx * Pow2(PrimBits) + i),
                  T, n, instanceIdx, i + 1)

\* ------------------------------------------------------------------ refit
\* an interior refit that starts from a copy of the left child
RefitInteriorFromChild(nodes, i) ==
  LET node == nodes[i]
      leftChild == nodes[node.leftFirst]
      rightChild == nodes[node.leftFirst + 1]
  IN [leftChild EXCEPT !.aabbMin = fminf(leftChild.aabbMin, rightChild.aabbMin),
                       !.aabbMax = fmaxf(leftChild.aabbMax, rightChild.aabbMax)]
\* one iteration of the loop of BVH::Refit, on node slot i
RefitInterior(nodes, i) ==
  LET node == nodes[i]
      leftChild == nodes[node.leftFirst]
      rightChild == nodes[node.leftFirst + 1]
  IN [node EXCEPT !.aabbMin = fminf(leftChild.aabbMin, rightChild.aabbMin),
                  !.aabbMax = fmaxf(leftChild.aabbMax, rightChild.aabbMax)]
RefitNode(st, T, i) ==
  IF isLeaf(st.node[i]) THEN UpdateNodeBounds(st, T, i)
  ELSE [st EXCEPT !.node[i] = RefitInterior(st.node, i)]
\* BVH::Refit: slots nodesUsed-1 down to 0, skipping the reserved slot 1
RECURSIVE RefitLoop(_, _, _)
RefitLoop(st, T, i) ==
  IF i < 0 THEN st
  ELSE RefitLoop(IF i # 1 THEN RefitNode(st, T, i) ELSE st, T, i - 1)
\* the same pass walking the pool from slot 0 upwards
RECURSIVE RefitLoopAscending(_, _, _)
RefitLoopAscending(st, T, i) ==
  IF i >= st.used THEN st
  ELSE RefitLoopAscending(IF i # 1 THEN RefitNode(st, T, i) ELSE st, T, i + 1)
BVH_RefitAscending(st, T) == RefitLoopAscending(st, T, 0)
BVH_Refit(st, T) == RefitLoop(st, T, st.used - 1)

\* ------------------------------------------------------------ BLAS actions
\* A run is one mesh through one frame: construction (which builds), queries, one
\* animation step, a refit, queries.  BVH::Refit rewrites the box of every used
\* node from the current vertices, so later frames reach no further kind of state.
InstanceIds == {0, 1}
BvhState == [node |-> bvhNode, idx |-> triIdx, used |-> nodesUsed, oob |-> oob]

\* the parts of the state an operation of another component leaves alone
NoTLAS ==
  /\ blasCount = 0
  /\ blasBounds = <<>>
  /\ tlasCap = 0
  /\ tlasNode = <<>>
  /\ tlasNodesUsed = 0
  /\ tlasOob = FALSE
NoBLAS ==
  /\ tri = <<>>
  /\ meshTriCount = 0
  /\ bvhCap = 0
  /\ bvhNode = <<>>
  /\ triIdx = <<>>
  /\ nodesUsed = 0
  /\ oob = FALSE
  /\ stage = "none"
  /\ moved = FALSE
  /\ ray = NoRay
  /\ lastOp = "none"
NoBuild ==
  /\ nodeIdx = <<>>
  /\ nodeIndices = 0
  /\ A = 0
  /\ B = 0
  /\ pcT = "none"
NoQuick ==
  /\ treeSize = <<>>
  /\ tree = <<>>
  /\ worker = <<>>
  /\ pcQ = "none"

InitBLAS ==
  /\ NoTLAS /\ NoBuild /\ NoQuick
  /\ meshTriCount \in 0..MaxTris
  /\ tri \in [0..(meshTriCount - 1) -> TriChoices]
  /\ bvhCap = 0
  /\ bvhNode = [i \in PoolSlots |-> NilNode]
  /\ triIdx = <<>>
  /\ nodesUsed = 0
  /\ oob = FALSE
  /\ stage = "loaded"
  /\ moved = FALSE
  /\ ray = NoRay
  /\ lastOp = "Mesh"

\* BVH::BVH: allocate 2 * triCount nodes and triCount indices, then BVH::Build
Construct ==
  /\ stage = "loaded"
  /\ \E b \in {BVH_Build(tri, meshTriCount, 2 * meshTriCount, bvhNode)} :
        /\ bvhCap' = 2 * meshTriCount
        /\ bvhNode' = b.st.node
        /\ triIdx' = b.st.idx
        /\ nodesUsed' = b.st.used
        /\ oob' = b.st.oob
        /\ tri' = b.tri
  /\ stage' = "fresh"
  /\ lastOp' = "Build"
  /\ UNCHANGED <<meshTriCount, moved, ray, tlasVars, buildVars, quickVars>>

\* the mesh source moves the vertices of one triangle (animation between calls);
\* the caller's ray of an earlier query is dropped
Animate ==
  /\ stage = "fresh"
  /\ ~moved
  /\ ~oob
  /\ \E k \in DOMAIN tri : \E t \in TriChoices :
       /\ <<t.vertex0, t.vertex1, t.vertex2>> # <<tri[k].vertex0, tri[k].vertex1, tri[k].vertex2>>
       /\ tri' = [tri EXCEPT ![k] = [@ EXCEPT !.vertex0 = t.vertex0, !.vertex1 = t.vertex1,
                                               !.vertex2 = t.vertex2]]
  /\ stage' = "dirty"
  /\ moved' = TRUE
  /\ ray' = NoRay
  /\ lastOp' = "Animate"
  /\ UNCHANGED <<meshTriCount, bvhCap, bvhNode, triIdx, nodesUsed, oob, tlasVars, buildVars, quickVars>>

\* BVH::Refit
Refit ==
  /\ stage \in {"fresh", "dirty"}
  /\ ~oob
  /\ \E s \in {BVH_Refit(BvhState, tri)} :
        /\ bvhNode' = s.node
        /\ triIdx' = s.idx
        /\ nodesUsed' = s.used
        /\ oob' = s.oob
  /\ stage' = "fresh"
  /\ ray' = NoRay
  /\ lastOp' = "Refit"
  /\ UNCHANGED <<tri, meshTriCount, bvhCap, moved, tlasVars, buildVars, quickVars>>

\* BVH::Intersect on a ray with a fresh hit record (hit.t = 1e30f).  Not modelled
\* once an out-of-bounds access has made the state of the pool undefined.  Queries
\* do not change the BVH, so one query per state of the scene is kept.
Intersect ==
  /\ stage = "fresh"
  /\ ~oob
  /\ lastOp # "Intersect"
  /\ \E O \in RayOrigins, D \in RayDirs, inst \in InstanceIds :
       LET r == [O |-> O, D |-> D, inst |-> inst, hit |-> NoHit]
       IN ray' = [r EXCEPT !.hit = BVH_Intersect(r, NoHit, tri, bvhNode, triIdx, inst, 0, <<>>)]
  /\ lastOp' = "Intersect"
  /\ UNCHANGED <<tri, meshTriCount, bvhCap, bvhNode, triIdx, nodesUsed, oob, stage, moved,
                 tlasVars, buildVars, quickVars>>

NextBLAS == Construct \/ Animate \/ Refit \/ Intersect
SpecBLAS == InitBLAS /\ [][NextBLAS]_vars

\* ------------------------------------------------------- BLAS properties
\* the node slots reachable from slot n (fuel bounds the descent on a broken pool)
RECURSIVE Reach(_, _, _)
Reach(nodes, n, fuel) ==
  IF fuel = 0 \/ n \notin DOMAIN nodes THEN {}
  ELSE IF isLeaf(nodes[n]) THEN {n}
  ELSE {n} \cup Reach(nodes, nodes[n].leftFirst, fuel - 1)
           \cup Reach(nodes, nodes[n].leftFirst + 1, fuel - 1)
Tree == Reach(bvhNode, 0, 2 * MaxTris)
LeafSlots == {n \in Tree : isLeaf(bvhNode[n])}
InteriorSlots == {n \in Tree : ~isLeaf(bvhNode[n])}
UsedSlots == {n \in 0..(nodesUsed - 1) : n # 1}
Range(n) == bvhNode[n].leftFirst..(bvhNode[n].leftFirst + bvhNode[n].triCount - 1)
\* the triIdx positions covered by the subtree of slot n
Covered(n) == UNION {Range(l) : l \in {m \in Reach(bvhNode, n, 2 * MaxTris) : isLeaf(bvhNode[m])}}
Encloses(n, p) ==
  \A k \in 1..3 : bvhNode[n].aabbMin[k] <= p[k] /\ p[k] <= bvhNode[n].aabbMax[k]
Built == stage # "loaded" /\ meshTriCount >= 1

\* C1: after BVH::Build on T >= 1 triangles triIdx is a permutation of 0..T-1 and
\* the ranges of the leaves reachable from slot 0 are non-empty, pairwise disjoint
\* and cover [0, T).
C1_LeavesPartitionTriIdx ==
  Built =>
    /\ DOMAIN triIdx = 0..(meshTriCount - 1)
    /\ \A k \in 0..(meshTriCount - 1) : Cardinality({i \in DOMAIN triIdx : triIdx[i] = k}) = 1
    /\ \A l \in LeafSlots : bvhNode[l].triCount >= 1
    /\ \A l, m \in LeafSlots : l # m => Range(l) \cap Range(m) = {}
    /\ UNION {Range(l) : l \in LeafSlots} = 0..(meshTriCount - 1)
C1_Witness ==
  /\ Built /\ lastOp = "Build" /\ meshTriCount = 3
  /\ Cardinality(LeafSlots) = 3
  /\ \E i \in DOMAIN triIdx : triIdx[i] # i

\* C4: after BVH::Build every used node's box encloses every vertex of every
\* triangle of its subtree, and every interior node's box encloses the boxes of its
\* children at leftFirst and leftFirst + 1.
C4_BoxesEnclose ==
  (Built /\ stage = "fresh" /\ ~moved) =>
    /\ UsedSlots = Tree
    /\ \A n \in UsedSlots : \A i \in Covered(n) :
         /\ Encloses(n, tri[triIdx[i]].vertex0)
         /\ Encloses(n, tri[triIdx[i]].vertex1)
         /\ Encloses(n, tri[triIdx[i]].vertex2)
    /\ \A n \in UsedSlots : ~isLeaf(bvhNode[n]) =>
         \A c \in {bvhNode[n].leftFirst, bvhNode[n].leftFirst + 1} :
           Encloses(n, bvhNode[c].aabbMin) /\ Encloses(n, bvhNode[c].aabbMax)
C4_Witness ==
  /\ Built /\ lastOp = "Build" /\ nodesUsed = 6
  /\ \E n \in InteriorSlots : n # 0 /\ bvhNode[n].aabbMax # bvhNode[0].aabbMax

\* C5: BVH::Refit changes only node boxes: triIdx, nodesUsed and every node's
\* leftFirst and triCount are the same after Refit as before it.
C5_RefitKeepsTopology ==
  [][lastOp' = "Refit" =>
       /\ triIdx' = triIdx
       /\ nodesUsed' = nodesUsed
       /\ \A n \in PoolSlots : /\ bvhNode'[n].leftFirst = bvhNode[n].leftFirst
                               /\ bvhNode'[n].triCount = bvhNode[n].triCount]_vars
C5_Witness ==
  /\ lastOp = "Refit" /\ moved /\ nodesUsed >= 4
  /\ \E i \in DOMAIN triIdx : triIdx[i] # i

\* C9: in a built BLAS the children of every interior node lie at higher slots than
\* the node, and after BVH::Refit on moved vertices every leaf's box is the exact
\* bound of its triangles' current vertices and every interior node's box is the
\* componentwise min/max of its two children's boxes.
ExactLeafBox(n) ==
  LET box == BoundsOf(tri, triIdx, bvhNode[n].leftFirst, bvhNode[n].triCount, 0, EmptyBox)
  IN bvhNode[n].aabbMin = box.bmin /\ bvhNode[n].aabbMax = box.bmax
ChildrenBox(n) ==
  LET l == bvhNode[bvhNode[n].leftFirst]
      r == bvhNode[bvhNode[n].leftFirst + 1]
  IN /\ bvhNode[n].aabbMin = fminf(l.aabbMin, r.aabbMin)
     /\ bvhNode[n].aabbMax = fmaxf(l.aabbMax, r.aabbMax)
C9_RefitBottomUp ==
  /\ Built => \A n \in UsedSlots : ~isLeaf(bvhNode[n]) => bvhNode[n].leftFirst > n
  /\ (Built /\ lastOp = "Refit") =>
       \A n \in UsedSlots : IF isLeaf(bvhNode[n]) THEN ExactLeafBox(n) ELSE ChildrenBox(n)
C9_Witness ==
  /\ Built /\ lastOp = "Refit" /\ moved /\ nodesUsed = 6
  /\ \E n \in InteriorSlots : n # 0

\* C2 (BLAS part): after BVH::Intersect the hit distance equals that of the scan of
\* IntersectTri over every triangle, instPrim names a triangle attaining it, and a
\* ray the scan leaves without a hit is left without one.
SameT(h, g) == h.tn * g.td = g.tn * h.td
C2_TraversalEqualsBruteForce ==
  lastOp = "Intersect" =>
    LET bf == BruteForce(ray, NoHit, tri, meshTriCount, ray.inst, 0)
    IN /\ SameT(ray.hit, bf)
       /\ bf = NoHit => ray.hit = NoHit
       /\ bf # NoHit =>
            /\ ray.hit.instPrim \div Pow2(PrimBits) = ray.inst
            /\ ray.hit.instPrim % Pow2(PrimBits) \in DOMAIN tri
            /\ SameT(IntersectTri(ray, NoHit, tri[ray.hit.instPrim % Pow2(PrimBits)], ray.hit.instPrim), bf)

\* C8 (BLAS part): constructing the BVH of a mesh with 0 triangles touches no element
\* outside the allocated arrays.
C8_EmptyBuildInBounds ==
  (meshTriCount = 0 /\ stage # "loaded") => ~oob

\* ----------------------------------------------------- TLAS reference build
MkBox(lo, hi) == [bmin |-> lo, bmax |-> hi]
\* instance bounds: equal boxes and equally spaced boxes make merge scores tie
BoxChoices ==
  { MkBox(Vec(0, 0, 0), Vec(1, 1, 1)),
    MkBox(Vec(2, 0, 0), Vec(3, 1, 1)),
    MkBox(Vec(4, 0, 0), Vec(5, 1, 1)),
    MkBox(Vec(2, 3, 0), Vec(3, 4, 2)) }
NilTNode == [aabbMin |-> Vec(0, 0, 0), aabbMax |-> Vec(0, 0, 0), leftRight |-> 0, BLAS |-> 0]
\* the TLAS slots the reference build can name: 2N + 2 for N <= MaxInst
TSlots == 0..(2 * MaxInst + 1)

\* leftRight = left + (right << 16) and its two halves
LeftRight(l, r) == l + r * Pow2(ChildBits)
LeftOf(node) == node.leftRight % Pow2(ChildBits)
RightOf(node) == node.leftRight \div Pow2(ChildBits)
\* TLASNode::isLeaf
isLeafT(node) == node.leftRight = 0

\* the scan of TLAS::FindBestMatch from candidate b on: [smallest, bestB]
RECURSIVE ScanMatch(_, _, _, _, _, _)
ScanMatch(nodes, idx, n, a, b, best) ==
  IF b >= n THEN best
  ELSE IF b = a THEN ScanMatch(nodes, idx, n, a, b + 1, best)
  ELSE LET bmax == fmaxf(nodes[idx[a]].aabbMax, nodes[idx[b]].aabbMax)
           bmin == fminf(nodes[idx[a]].aabbMin, nodes[idx[b]].aabbMin)
           surfaceArea == HalfArea(bmin, bmax)
       IN ScanMatch(nodes, idx, n, a, b + 1,
                    IF surfaceArea < best.smallest
                    THEN [smallest |-> surfaceArea, bestB |-> b] ELSE best)
\* a scan that takes the first minimum after a, cyclically
RECURSIVE ScanMatchFrom(_, _, _, _, _, _)
ScanMatchFrom(nodes, idx, n, a, k, best) ==
  IF k >= n THEN best
  ELSE LET b == (a + k) % n
           bmax == fmaxf(nodes[idx[a]].aabbMax, nodes[idx[b]].aabbMax)
           bmin == fminf(nodes[idx[a]].aabbMin, nodes[idx[b]].aabbMin)
           surfaceArea == HalfArea(bmin, bmax)
       IN ScanMatchFrom(nodes, idx, n, a, k + 1,
                        IF b # a /\ surfaceArea < best.smallest
                        THEN [smallest |-> surfaceArea, bestB |-> b] ELSE best)
FindBestMatchCyclic(nodes, idx, n, a) ==
  IF n = 0 THEN -1
  ELSE ScanMatchFrom(nodes, idx, n, a, 1, [smallest |-> Huge, bestB |-> -1]).bestB
\* TLAS::FindBestMatch( N, A )
FindBestMatch(nodes, idx, n, a) ==
  ScanMatch(nodes, idx, n, a, 0, [smallest |-> Huge, bestB |-> -1]).bestB

\* the leaf loop of TLAS::Build: instance i becomes the leaf at slot i + 1
RECURSIVE AssignLeaves(_, _, _, _, _)
AssignLeaves(nodes, idx, bnds, n, i) ==
  IF i >= n THEN [node |-> nodes, idx |-> idx]
  ELSE AssignLeaves([nodes EXCEPT ![i + 1] = [aabbMin |-> bnds[i].bmin, aabbMax |-> bnds[i].bmax,
                                                leftRight |-> 0, BLAS |-> i]],
                    [idx EXCEPT ![i] = i + 1], bnds, n, i + 1)

\* The pair branch of the loop of TLAS::Build on st = [node, idx, used, n, a, b]:
\* the new interior node and the update of the active list (--nodeIndices included).
\* a pair branch that leaves the merged cluster B in the active list
MergePairKeepB(st) ==
  LET nodeIdxA == st.idx[st.a]
      nodeIdxB == st.idx[st.b]
      newNode == [aabbMin |-> fminf(st.node[nodeIdxA].aabbMin, st.node[nodeIdxB].aabbMin),
                  aabbMax |-> fmaxf(st.node[nodeIdxA].aabbMax, st.node[nodeIdxB].aabbMax),
                  leftRight |-> LeftRight(nodeIdxA, nodeIdxB),
                  BLAS |-> st.node[st.used].BLAS]
      nodes1 == [st.node EXCEPT ![st.used] = newNode]
      idx1 == [st.idx EXCEPT ![st.a] = st.used]
  IN [st EXCEPT !.node = nodes1, !.idx = idx1, !.used = st.used + 1, !.n = st.n - 1]
MergePair(st) ==
  LET nodeIdxA == st.idx[st.a]
      nodeIdxB == st.idx[st.b]
      newNode == [aabbMin |-> fminf(st.node[nodeIdxA].aabbMin, st.node[nodeIdxB].aabbMin),
                  aabbMax |-> fmaxf(st.node[nodeIdxA].aabbMax, st.node[nodeIdxB].aabbMax),
                  leftRight |-> LeftRight(nodeIdxA, nodeIdxB),
                  BLAS |-> st.node[st.used].BLAS]
      nodes1 == [st.node EXCEPT ![st.used] = newNode]
      idx1 == [st.idx EXCEPT ![st.a] = st.used]
      idx2 == [idx1 EXCEPT ![st.b] = idx1[st.n - 1]]
  IN [st EXCEPT !.node = nodes1, !.idx = idx2, !.used = st.used + 1, !.n = st.n - 1]

BuildState == [node |-> tlasNode, idx |-> nodeIdx, used |-> tlasNodesUsed, n |-> nodeIndices,
               a |-> A, b |-> B]

\* TLAS::TLAS: the pool of 2N + 2 nodes, nodeIdx of N entries, nodesUsed = 2
InitTLAS ==
  /\ NoBLAS /\ NoQuick
  /\ blasCount \in 0..MaxInst
  /\ blasBounds \in [0..(blasCount - 1) -> BoxChoices]
  /\ tlasCap = 2 * blasCount + 2
  /\ tlasNode = [i \in TSlots |-> NilTNode]
  /\ tlasNodesUsed = 2
  /\ tlasOob = FALSE
  /\ nodeIdx = [i \in 0..(blasCount - 1) |-> 0]
  /\ nodeIndices = 0
  /\ A = 0
  /\ B = 0
  /\ pcT = "new"

\* TLAS::Build up to the loop: the leaves at slots 1..N, then A = 0 and the first B
TLASBuildBegin ==
  /\ pcT = "new"
  /\ \E l \in {AssignLeaves(tlasNode, nodeIdx, blasBounds, blasCount, 0)} :
       /\ tlasNode' = l.node
       /\ nodeIdx' = l.idx
       /\ B' = FindBestMatch(l.node, l.idx, blasCount, 0)
  /\ tlasNodesUsed' = 1 + blasCount
  /\ nodeIndices' = blasCount
  /\ A' = 0
  /\ pcT' = "loop"
  /\ UNCHANGED <<blasCount, blasBounds, tlasCap, tlasOob, blasVars, quickVars>>

\* one iteration of "while (nodeIndices > 1)"
TLASBuildIter ==
  /\ pcT = "loop"
  /\ nodeIndices > 1
  /\ \E C \in {FindBestMatch(tlasNode, nodeIdx, nodeIndices, B)} :
       IF A = C
       THEN \E m \in {MergePair(BuildState)} :
              /\ tlasNode' = m.node
              /\ nodeIdx' = m.idx
              /\ tlasNodesUsed' = m.used
              /\ nodeIndices' = m.n
              /\ A' = A
              /\ B' = FindBestMatch(m.node, m.idx, m.n, A)
              /\ tlasOob' = (tlasOob \/ tlasNodesUsed >= tlasCap)
       ELSE /\ A' = B
            /\ B' = C
            /\ UNCHANGED <<tlasNode, nodeIdx, tlasNodesUsed, nodeIndices, tlasOob>>
  /\ UNCHANGED <<blasCount, blasBounds, tlasCap, pcT, blasVars, quickVars>>

\* the exit of the loop: tlasNode[0] = tlasNode[nodeIdx[A]].  With no instance
\* nodeIdx has no element 0: the index read is whatever lies behind the array.
TLASBuildEnd ==
  /\ pcT = "loop"
  /\ nodeIndices <= 1
  /\ IF A \in DOMAIN nodeIdx
     THEN /\ tlasNode' = [tlasNode EXCEPT ![0] = tlasNode[nodeIdx[A]]]
          /\ UNCHANGED tlasOob
     ELSE /\ \E g \in TSlots : tlasNode' = [tlasNode EXCEPT ![0] = tlasNode[g]]
          /\ tlasOob' = TRUE
  /\ pcT' = "done"
  /\ UNCHANGED <<blasCount, blasBounds, tlasCap, tlasNodesUsed, nodeIdx, nodeIndices, A, B,
                 blasVars, quickVars>>

NextTLAS == TLASBuildBegin \/ TLASBuildIter \/ TLASBuildEnd
SpecTLAS == InitTLAS /\ [][NextTLAS]_vars
\* TLAS::Build runs on the caller's thread without waiting for anything
FairSpecTLAS == SpecTLAS /\ WF_vars(NextTLAS)

\* ------------------------------------------------------- TLAS properties
\* number of leaves holding instance k in the tree below slot n, counted per path
RECURSIVE LeavesOf(_, _, _, _)
LeavesOf(nodes, n, k, fuel) ==
  IF fuel = 0 \/ n \notin DOMAIN nodes THEN 0
  ELSE IF isLeafT(nodes[n]) THEN (IF nodes[n].BLAS = k THEN 1 ELSE 0)
  ELSE LeavesOf(nodes, LeftOf(nodes[n]), k, fuel - 1) + LeavesOf(nodes, RightOf(nodes[n]), k, fuel - 1)
\* the slots reachable from slot n
RECURSIVE ReachT(_, _, _)
ReachT(nodes, n, fuel) ==
  IF fuel = 0 \/ n \notin DOMAIN nodes THEN {}
  ELSE IF isLeafT(nodes[n]) THEN {n}
  ELSE {n} \cup ReachT(nodes, LeftOf(nodes[n]), fuel - 1) \cup ReachT(nodes, RightOf(nodes[n]), fuel - 1)
TreeT == ReachT(tlasNode, 0, MaxInst + 1)
ChildrenBoxT(n) ==
  LET l == tlasNode[LeftOf(tlasNode[n])]
      r == tlasNode[RightOf(tlasNode[n])]
  IN /\ tlasNode[n].aabbMin = fminf(l.aabbMin, r.aabbMin)
     /\ tlasNode[n].aabbMax = fmaxf(l.aabbMax, r.aabbMax)

\* C3: after TLAS::Build on N >= 1 instances the tree below slot 0 holds every
\* instance 0..N-1 in exactly one leaf (leftRight = 0, BLAS = the instance), and the
\* box of every reachable interior node is the componentwise min/max of the boxes of
\* the children named by the low and the high 16 bits of its leftRight.
C3_TlasHoldsEachInstanceOnce ==
  (pcT = "done" /\ blasCount >= 1) =>
    /\ \A k \in 0..(blasCount - 1) : LeavesOf(tlasNode, 0, k, MaxInst + 1) = 1
    /\ \A n \in TreeT :
         IF isLeafT(tlasNode[n])
         THEN /\ tlasNode[n].BLAS \in 0..(blasCount - 1)
              /\ tlasNode[n].aabbMin = blasBounds[tlasNode[n].BLAS].bmin
              /\ tlasNode[n].aabbMax = blasBounds[tlasNode[n].BLAS].bmax
         ELSE ChildrenBoxT(n)
C3_Witness ==
  /\ pcT = "done" /\ blasCount >= 3
  /\ ~isLeafT(tlasNode[0])
  /\ \E n \in TreeT : n # 0 /\ ~isLeafT(tlasNode[n]) /\ RightOf(tlasNode[n]) < LeftOf(tlasNode[n])

\* C10: TLAS::Build terminates for every N >= 1 and every assignment of boxes, ties
\* included: from the loop it reaches its end with nodeIndices = 1, nodesUsed = 2N
\* (N - 1 merges) and the remaining cluster copied to slot 0; every step of the loop
\* that changes nodeIndices is a merge that lowers it by one and adds one node.
C10_BuildTerminates ==
  /\ [][(pcT = "loop" /\ nodeIndices' # nodeIndices) =>
          (nodeIndices' = nodeIndices - 1 /\ tlasNodesUsed' = tlasNodesUsed + 1)]_vars
  /\ (pcT = "new" /\ blasCount >= 1) ~>
       (/\ pcT = "done"
        /\ nodeIndices = 1
        /\ tlasNodesUsed = 2 * blasCount
        /\ tlasNode[0] = tlasNode[nodeIdx[A]]
        /\ tlasNode[0] = tlasNode[tlasNodesUsed - 1])
C10_Witness ==
  /\ pcT = "done" /\ blasCount >= 3 /\ tlasNodesUsed = 2 * blasCount
  /\ blasBounds[0] = blasBounds[1] /\ blasBounds[1] = blasBounds[2]

\* ------------------------------------------------------ TLAS::BuildQuick
\* Unsigned arithmetic.  first, last, half, treeSize, A, nodePtr and workLeft are
\* uint.  Sums such as nodePtr += treeSize[j] - 1 are modular: with treeSize[j] = 0
\* the addend 0xFFFFFFFF acts as -1, and the result is the integer sum below.
\* workLeft-- from 0 gives 0xFFFFFFFF, kept here as -1 (the same bits read as int);
\* workLeft is only decremented and compared with 2.
Groups == 0..(GroupCount - 1)
\* instance counts: fewer instances than groups, two per group, and one group of three
QuickCounts == {1, 2 * GroupCount, 2 * GroupCount + 1}
MaxQuick == 2 * GroupCount + 1
QSlots == 0..(2 * MaxQuick + QuickHeadroom - 1)
\* instance bounds: unit boxes along the x axis, or scattered with equal coordinates
Layouts == {0, 1}
QuickBounds(n, l) ==
  [i \in 0..(n - 1) |->
     LET lo == IF l = 0 THEN Vec(2 * i, 0, 0) ELSE Vec((i * 5) % 7, (i * 3) % 4, i % 2)
     IN MkBox(lo, VAdd(lo, Vec(1, 1, 1)))]
\* what a slot holds before it is first written: the pool is not initialised
GarbageNodes ==
  { NilTNode,
    [aabbMin |-> Vec(-1, -1, -1), aabbMax |-> Vec(3, 3, 3), leftRight |-> 0, BLAS |-> 0] }

\* Swap of two SortItems
Swap(a, i, j) == [a EXCEPT ![i] = a[j], ![j] = a[i]]
RECURSIVE PivotLoop(_, _, _, _, _)
PivotLoop(a, e, last, i, p) ==
  IF i > last THEN [a |-> a, p |-> p]
  ELSE IF a[i].pos <= e.pos THEN PivotLoop(Swap(a, i, p + 1), e, last, i + 1, p + 1)
  ELSE PivotLoop(a, e, last, i + 1, p)
\* Pivot: [a, p]
Pivot(a, first, last) ==
  LET r == PivotLoop(a, a[first], last, first + 1, first)
  IN [a |-> Swap(r.a, r.p, first), p |-> r.p]
RECURSIVE QuickSort(_, _, _)
QuickSort(a, first, last) ==
  IF first >= last THEN a
  ELSE LET pv == Pivot(a, first, last)
       IN QuickSort(QuickSort(pv.a, first, pv.p - 1), pv.p + 1, last)

\* SortAndSplit threads q = [item, node, used, treeIdx, treeSize, tree].
\* the position loop: item[i].pos = (bmin[axis] + bmin[axis]) * 0.5f
RECURSIVE SetPositions(_, _, _, _, _)
SetPositions(item, bnds, axis, i, last) ==
  IF i > last THEN item
  ELSE SetPositions([item EXCEPT ![i].pos = bnds[item[i].blasIdx].bmin[axis + 1]], bnds, axis, i + 1, last)
\* one chunk: the leaves of items lo..hi at nodesUsed++, then the group's kD-tree over
\* the count nodes from slot base and its treeSize
RECURSIVE ChunkLeaves(_, _, _, _)
ChunkLeaves(q, bnds, i, hi) ==
  IF i > hi THEN q
  ELSE ChunkLeaves([q EXCEPT !.node[q.used] = [aabbMin |-> bnds[q.item[i].blasIdx].bmin,
                                                aabbMax |-> bnds[q.item[i].blasIdx].bmax,
                                                leftRight |-> 0,
                                                BLAS |-> q.item[i].blasIdx],
                             !.used = q.used + 1], bnds, i + 1, hi)
Chunk(q, bnds, lo, hi, base, count) ==
  LET q1 == ChunkLeaves(q, bnds, lo, hi)
  IN [q1 EXCEPT !.tree[q.treeIdx] = base..(base + count - 1),
                !.treeSize[q.treeIdx] = count,
                !.treeIdx = q.treeIdx + 1]
RECURSIVE SortAndSplit(_, _, _, _, _)
SortAndSplit(q, bnds, first, last, level) ==
  LET axis == level % 3
      sorted == QuickSort(SetPositions(q.item, bnds, axis, first, last), first, last)
      half == (first + last) \div 2
      q1 == [q EXCEPT !.item = sorted, !.treeIdx = IF level = 0 THEN 0 ELSE q.treeIdx]
  IN IF level < 2
     THEN SortAndSplit(SortAndSplit(q1, bnds, first, half, level + 1), bnds, half + 1, last, level + 1)
     ELSE Chunk(Chunk(q1, bnds, first, half, first + LeafBase, half - first + 1),
                bnds, half + 1, last, half + LeafBase + 1, last - half)

\* KDTree::FindNearest( A, startB, startSA ) on the kD-tree holding the slots t:
\* the slot other than A with the smallest merged half area, the lowest such slot on
\* ties, if that area is below startSA; else startB and startSA.  [B, sa]
MergedArea(nodes, a, c) ==
  HalfArea(fminf(nodes[a].aabbMin, nodes[c].aabbMin), fmaxf(nodes[a].aabbMax, nodes[c].aabbMax))
FindNearest(nodes, t, a, startB, startSA) ==
  LET cands == {c \in t : c # a /\ MergedArea(nodes, a, c) < startSA}
  IN IF cands = {} THEN [B |-> startB, sa |-> startSA]
     ELSE LET c == CHOOSE x \in cands : \A y \in cands :
                       \/ MergedArea(nodes, a, x) < MergedArea(nodes, a, y)
                       \/ MergedArea(nodes, a, x) = MergedArea(nodes, a, y) /\ x <= y
          IN [B |-> c, sa |-> MergedArea(nodes, a, c)]

\* A = 32 + treeSize[0] + ... + treeSize[i-1]
RECURSIVE FirstLeaf(_, _)
FirstLeaf(sizes, i) == IF i = 0 THEN LeafBase ELSE FirstLeaf(sizes, i - 1) + sizes[i - 1]
\* nodePtr = blasCount + 32 + (treeSize[0] - 1) + ... + (treeSize[i-1] - 1)
RECURSIVE FirstNode(_, _, _)
FirstNode(sizes, n, i) == IF i = 0 THEN n + LeafBase ELSE FirstNode(sizes, n, i - 1) + sizes[i - 1] - 1

\* TLAS::CreateParent
CreateParent(nodes, idx, left, right) ==
  [nodes EXCEPT ![idx] = [@ EXCEPT !.leftRight = LeftRight(left, right),
                                   !.aabbMin = fminf(nodes[left].aabbMin, nodes[right].aabbMin),
                                   !.aabbMax = fmaxf(nodes[left].aabbMax, nodes[right].aabbMax)]]
\* step 4 of BuildQuick
JoinTrees(nodes) ==
  CreateParent(CreateParent(CreateParent(
    CreateParent(CreateParent(CreateParent(CreateParent(nodes, 3, 7, 8), 4, 9, 10), 5, 11, 12), 6, 13, 14),
    1, 3, 4), 2, 5, 6), 0, 1, 2)

\* the locals of one iteration of the parallel loop, with the slots it has written
\* and read so far
IdleWorker ==
  [pc |-> "idle", sa |-> Huge, A |-> 0, B |-> 0, workLeft |-> 0, nodePtr |-> 0,
   written |-> {}, read |-> {}]

\* TLAS::TLAS, then the call of BuildQuick
InitQuick ==
  /\ NoBLAS /\ NoBuild
  /\ \E n \in QuickCounts, l \in Layouts, g \in GarbageNodes :
       /\ blasCount = n
       /\ blasBounds = QuickBounds(n, l)
       /\ tlasCap = 2 * n + 2
       /\ tlasNode = [k \in QSlots |-> g]
  /\ tlasNodesUsed = 2
  /\ tlasOob = FALSE
  /\ treeSize = [i \in Groups |-> 0]
  /\ tree = [i \in Groups |-> {}]
  /\ worker = [i \in Groups |-> IdleWorker]
  /\ pcQ = "new"

\* steps 1 and 2 of BuildQuick: the item array, nodesUsed = 32, SortAndSplit
QuickSplit ==
  /\ pcQ = "new"
  /\ \E q \in {SortAndSplit([item |-> [i \in 0..(blasCount - 1) |-> [pos |-> 0, blasIdx |-> i]],
                             node |-> tlasNode, used |-> LeafBase, treeIdx |-> 0,
                             treeSize |-> treeSize, tree |-> tree],
                            blasBounds, 0, blasCount - 1, 0)} :
       /\ tlasNode' = q.node
       /\ tlasNodesUsed' = q.used
       /\ treeSize' = q.treeSize
       /\ tree' = q.tree
       /\ tlasOob' = (tlasOob \/ q.used > tlasCap)
  /\ pcQ' = "split"
  /\ UNCHANGED <<blasCount, blasBounds, tlasCap, worker, blasVars, buildVars>>

\* step 3, worker i up to its loop: rebuild, the locals, the first FindNearest
WorkerStart(i) ==
  /\ pcQ = "split"
  /\ worker[i].pc = "idle"
  /\ \E a0 \in {FirstLeaf(treeSize, i)} :
     \E f \in {FindNearest(tlasNode, tree[i], a0, 0, Huge)} :
       worker' = [worker EXCEPT ![i] =
                    [pc |-> "loop", sa |-> f.sa, A |-> a0, B |-> f.B,
                     workLeft |-> treeSize[i],
                     nodePtr |-> FirstNode(treeSize, blasCount, i),
                     written |-> {}, read |-> {a0} \cup tree[i]]]
  /\ UNCHANGED <<tlasVars, treeSize, tree, pcQ, blasVars, buildVars>>

\* step 3, one iteration of worker i's "while (1)"; the iteration that breaks also
\* copies the group's root to slot i + 7.  A worker whose workLeft has wrapped below
\* zero is not followed further: it meets "workLeft-- == 2" only after 2^32 - 3 more
\* pairs, each written one slot further on.
WorkerIter(i) ==
  /\ pcQ = "split"
  /\ worker[i].pc = "loop"
  /\ worker[i].workLeft >= 0
  /\ \E w \in {worker[i]} :
     \E f \in {FindNearest(tlasNode, tree[i], w.B, w.A, w.sa)} :
       IF w.A = f.B
       THEN \E nodes1 \in {[tlasNode EXCEPT ![w.nodePtr] =
                              [@ EXCEPT !.aabbMin = fminf(tlasNode[w.A].aabbMin, tlasNode[w.B].aabbMin),
                                        !.aabbMax = fmaxf(tlasNode[w.A].aabbMax, tlasNode[w.B].aabbMax),
                                        !.leftRight = LeftRight(w.A, w.B)]]} :
              IF w.workLeft = 2
              THEN /\ tlasNode' = [nodes1 EXCEPT ![i + RootBase] = nodes1[w.nodePtr]]
                   /\ tree' = tree
                   /\ worker' = [worker EXCEPT ![i] =
                        [w EXCEPT !.pc = "done", !.sa = f.sa, !.workLeft = 1,
                                  !.written = @ \cup {w.nodePtr, i + RootBase},
                                  !.read = @ \cup {w.A, w.B, w.nodePtr} \cup tree[i]]]
              ELSE \E t1 \in {(tree[i] \ {w.A, w.B}) \cup {w.nodePtr}} :
                   \E g \in {FindNearest(nodes1, t1, w.nodePtr, 0, Huge)} :
                     /\ tlasNode' = nodes1
                     /\ tree' = [tree EXCEPT ![i] = t1]
                     /\ worker' = [worker EXCEPT ![i] =
                          [w EXCEPT !.sa = g.sa, !.A = w.nodePtr, !.B = g.B,
                                    !.workLeft = w.workLeft - 1,
                                    !.nodePtr = w.nodePtr + 1,
                                    !.written = @ \cup {w.nodePtr},
                                    !.read = @ \cup {w.A, w.B, w.nodePtr} \cup tree[i] \cup t1]]
       ELSE /\ worker' = [worker EXCEPT ![i] =
                            [w EXCEPT !.sa = f.sa, !.A = w.B, !.B = f.B,
                                      !.read = @ \cup {w.B} \cup tree[i]]]
            /\ UNCHANGED <<tlasNode, tree>>
  /\ tlasOob' = (tlasOob \/ \E s \in worker'[i].written \cup worker'[i].read : s >= tlasCap)
  /\ UNCHANGED <<blasCount, blasBounds, tlasCap, tlasNodesUsed, treeSize, pcQ, blasVars, buildVars>>

\* steps 4 and 5, after the parallel loop has ended: the seven parents, nodesUsed
Join ==
  /\ pcQ = "split"
  /\ \A i \in Groups : worker[i].pc = "done"
  /\ tlasNode' = JoinTrees(tlasNode)
  /\ tlasNodesUsed' = 2 * blasCount + QuickHeadroom
  /\ pcQ' = "joined"
  /\ UNCHANGED <<blasCount, blasBounds, tlasCap, tlasOob, treeSize, tree, worker, blasVars, buildVars>>

NextQuick ==
  \/ QuickSplit
  \/ \E i \in Groups : WorkerStart(i)
  \/ \E i \in Groups : WorkerIter(i)
  \/ Join
SpecQuick == InitQuick /\ [][NextQuick]_vars

\* ------------------------------------------------- BuildQuick properties
\* the instances SortAndSplit assigned to group i: those of its leaves
GroupLeaves(i) == FirstLeaf(treeSize, i)..(FirstLeaf(treeSize, i) + treeSize[i] - 1)
GroupInstances(i) == {tlasNode[k].BLAS : k \in GroupLeaves(i)}
\* slot i + 7 holds a tree whose leaves are exactly the instances of group i, once each
GroupRootCopied(i) ==
  \A k \in 0..(blasCount - 1) :
    LeavesOf(tlasNode, i + RootBase, k, MaxQuick) = (IF k \in GroupInstances(i) THEN 1 ELSE 0)

\* C6: during the parallel loop of BuildQuick, in every interleaving, two different
\* workers never write the same tlasNode slot, and no worker reads a slot another
\* worker writes.
C6_WorkersTouchDisjointSlots ==
  \A i, j \in Groups :
    (i # j /\ pcQ = "split") =>
      /\ worker[i].written \cap worker[j].written = {}
      /\ worker[i].read \cap worker[j].written = {}

\* C7: for every N >= 1 every one of the 8 workers of BuildQuick ends its loop, and
\* then slot 7 + i holds the root of group i, covering exactly the instances
\* SortAndSplit gave the group.  The loop has one exit, "workLeft-- == 2" at a pair,
\* and workLeft only counts down: a worker that ends its loop has workLeft >= 2 as
\* long as it is in it.
C7_WorkersTerminate ==
  \A i \in Groups :
    /\ worker[i].pc = "loop" => worker[i].workLeft >= 2
    /\ worker[i].pc = "done" => GroupRootCopied(i)

\* C11: every tlasNode slot BuildQuick writes lies inside the pool TLAS::TLAS
\* allocated (tlasCap = 2N + 2 nodes), and nodesUsed never exceeds that capacity:
\* the leaves SortAndSplit writes end below the watermark nodesUsed, the workers
\* write the slots in "written", and step 5 sets the final nodesUsed.
C11_WritesWithinPool ==
  /\ tlasNodesUsed <= tlasCap
  /\ \A i \in Groups : \A s \in worker[i].written : s < tlasCap

====
